---- MODULE Spec2Model ----
(***************************************************************************)
(* A model of src/src/local_llm_chat/app.py: the Flask request handlers    *)
(* of LocalLLMChat, the dual-protocol adapter (_call_local_llm,            *)
(* _get_available_models), the lifecycle probe (_check_llm_status,         *)
(* _start_llm_service) and the transcript store (save_conversation,        *)
(* list_conversations).                                                    *)
(*                                                                         *)
(* Python values that arrive as JSON are modelled as tagged records        *)
(* [t |-> tag, v |-> payload]; strings are sequences of one-character      *)
(* strings, so that substring tests and f-string concatenation are         *)
(* computed, not assumed.  A Python call that may raise is modelled by an  *)
(* operator that returns either its value or the handler's except branch.  *)
(***************************************************************************)
EXTENDS Integers, Sequences, FiniteSets, TLC

VARIABLES
    th,         \* per worker thread: the request it is handling and its progress
    files,      \* the storage directory: file name -> content
    clock,      \* the wall clock that datetime.now() reads, in ticks
    history,    \* file name -> the save requests that generated it (history)
    latest,     \* the last save that succeeded, no save having acted since
    proc        \* the server process: alive or not, and its pending shutdown

vars == <<th, files, clock, history, latest, proc>>

\* The server's worker threads (werkzeug serves each request in a thread).
Workers == {"w1", "w2"}

(***************************************************************************)
(* JSON / Python values                                                    *)
(***************************************************************************)
Absent == [t |-> "absent"]              \* a key that the object does not carry
Null == [t |-> "null"]                  \* JSON null, Python None
NotJson == [t |-> "text"]               \* a response body that json() cannot parse
Str(s) == [t |-> "str", v |-> s]        \* s: a sequence of characters
Num(n) == [t |-> "num", v |-> n]        \* n: the decimal text of the number
Lst(q) == [t |-> "list", v |-> q]       \* q: a sequence of values
Obj(f) == [t |-> "obj", v |-> f]        \* f: a function from keys to values

EmptyObj == Obj([k \in {} |-> Null])
EmptyStr == Str(<<>>)

\* An object built from a choice of value per key; Absent leaves the key out.
MkObj(choice) ==
    Obj([k \in {x \in DOMAIN choice : choice[x] # Absent} |-> choice[k]])

\* dict.get(key, default) on a value known to be a dict.
Get(d, key, default) == IF key \in DOMAIN d.v THEN d.v[key] ELSE default

\* Python truthiness (bool(x)) of a JSON value.
Truthy(x) ==
    CASE x.t = "null" -> FALSE
      [] x.t = "str"  -> Len(x.v) > 0
      [] x.t = "list" -> Len(x.v) > 0
      [] x.t = "obj"  -> DOMAIN x.v # {}
      [] OTHER        -> TRUE

(***************************************************************************)
(* Strings                                                                 *)
(***************************************************************************)
UpperAlpha == <<"A","B","C","D","E","F","G","H","I","J","K","L","M",
                "N","O","P","Q","R","S","T","U","V","W","X","Y","Z">>
LowerAlpha == <<"a","b","c","d","e","f","g","h","i","j","k","l","m",
                "n","o","p","q","r","s","t","u","v","w","x","y","z">>

LowerChar(c) ==
    IF \E i \in DOMAIN UpperAlpha : UpperAlpha[i] = c
    THEN LowerAlpha[CHOOSE i \in DOMAIN UpperAlpha : UpperAlpha[i] = c]
    ELSE c

\* str.lower()
Lower(s) == [i \in DOMAIN s |-> LowerChar(s[i])]

\* sub in s
Contains(sub, s) ==
    \E i \in 0..(Len(s) - Len(sub)) : SubSeq(s, i + 1, i + Len(sub)) = sub

Port11434 == <<"1","1","4","3","4">>
OllamaWord == <<"o","l","l","a","m","a">>

PathApiChat == <<"/","a","p","i","/","c","h","a","t">>
PathApiTags == <<"/","a","p","i","/","t","a","g","s">>
PathV1Chat == <<"/","v","1","/","c","h","a","t","/",
                "c","o","m","p","l","e","t","i","o","n","s">>
PathV1Models == <<"/","v","1","/","m","o","d","e","l","s">>

Http == <<"h","t","t","p",":","/","/">>
Localhost == <<"l","o","c","a","l","h","o","s","t">>

\* "http://localhost:11434", the default of data.get("endpoint", ...)
DefaultEndpoint == Http \o Localhost \o <<":">> \o Port11434

\* The endpoint strings a client may send.
EndpointStrings ==
    { DefaultEndpoint,
      Http \o Localhost \o <<":","1","2","3","4">>,
      Http \o <<"O","L","L","a","M","A">> \o <<":","8","0">>,
      Http \o OllamaWord,
      Http \o <<"o","l","a","m","a",":","1","1","4","3">>,
      <<"h",":","1">> \o Port11434,
      <<>> }

(***************************************************************************)
(* The LLM runtime, as the adapter sees it                                 *)
(***************************************************************************)
Content(c) == Obj([content |-> Str(c)])
Hi == <<"h","i">>
Yo == <<"y","o">>

\* Bodies the runtime may send with a chat reply.
ChatReplyBodies ==
    { NotJson,
      Null,
      EmptyObj,
      Obj([message |-> Null]),
      Obj([message |-> EmptyObj]),
      Obj([message |-> Content(Hi)]),
      Obj([choices |-> Null]),
      Obj([choices |-> Lst(<<>>)]),
      Obj([choices |-> Lst(<<EmptyObj>>)]),
      Obj([choices |-> Lst(<<Obj([message |-> Content(Yo)])>>)]),
      Obj([message |-> Content(Hi),
           choices |-> Lst(<<Obj([message |-> Content(Yo)])>>)]) }

\* What one requests.post / requests.get ends in: an exception of
\* requests.exceptions, or a response with a status code and a body.
Raised(exc) == [kind |-> "raise", exc |-> exc, status |-> 0, body |-> NotJson]
Answered(status, body) ==
    [kind |-> "http", exc |-> "", status |-> status, body |-> body]
NoCall == [kind |-> "none", exc |-> "", status |-> 0, body |-> NotJson]

\* An outbound call of a handler: an HTTP request or a subprocess.
Post(url, payload) == [via |-> "POST", to |-> url, payload |-> payload]
HttpGet(url) == [via |-> "GET", to |-> url, payload |-> Null]

NetworkFailures == {Raised("ConnectionError"), Raised("Timeout")}

ChatOutcomes ==
    NetworkFailures
    \cup {Answered(404, NotJson), Answered(500, EmptyObj)}
    \cup {Answered(200, b) : b \in ChatReplyBodies}

(***************************************************************************)
(* _call_local_llm                                                         *)
(***************************************************************************)
\* The texts of the adapter's error messages, each kept as one token.
ErrStatus == Str(<<"LLM API returned status">>)
ErrConnecting == Str(<<"Error connecting to LLM endpoint">>)
ErrUnexpected == Str(<<"Unexpected error">>)

\* `"11434" in endpoint or "ollama" in endpoint.lower()`, where the request
\* is built.
ChatRequestIsOllama(endpoint) ==
    Contains(Port11434, endpoint) \/ Contains(OllamaWord, Lower(endpoint))

\* The test without lower(): "ollama" is matched in lower case only.
ChatExtractIsOllamaCased(endpoint) ==
    Contains(Port11434, endpoint) \/ Contains(OllamaWord, endpoint)

\* The same test, repeated where the reply is read.
ChatExtractIsOllama(endpoint) ==
    Contains(Port11434, endpoint) \/ Contains(OllamaWord, Lower(endpoint))

\* api_url and payload of the chat request.
ChatRequest(endpoint, model, messages, temperature) ==
    IF ChatRequestIsOllama(endpoint)
    THEN Post(endpoint \o PathApiChat,
              [model |-> model, messages |-> messages, stream |-> FALSE,
               options |-> [temperature |-> temperature]])
    ELSE Post(endpoint \o PathV1Chat,
              [model |-> model, messages |-> messages,
               temperature |-> temperature])

\* A value, or an exception raised on the way to it.
Ok(val) == [ok |-> TRUE, val |-> val]
Raise == [ok |-> FALSE, val |-> Null]

\* response_data.get("message", {}).get("content", "")
ExtractOllama(data) ==
    IF data.t # "obj" THEN Raise
    ELSE LET message == Get(data, "message", EmptyObj)
         IN  IF message.t # "obj" THEN Raise
             ELSE Ok(Get(message, "content", EmptyStr))

\* (response_data.get("choices") or [{}])[0]...: an empty choices list reads
\* as a missing one.
ExtractOpenAILenient(data) ==
    IF data.t # "obj" THEN Raise
    ELSE LET given == Get(data, "choices", Lst(<<EmptyObj>>))
             choices == IF Truthy(given) THEN given ELSE Lst(<<EmptyObj>>)
         IN  IF choices.t # "list" THEN Raise
             ELSE LET first == choices.v[1]
                  IN  IF first.t # "obj" THEN Raise
                      ELSE LET message == Get(first, "message", EmptyObj)
                           IN  IF message.t # "obj" THEN Raise
                               ELSE Ok(Get(message, "content", EmptyStr))

\* response_data.get("choices", [{}])[0].get("message", {}).get("content", "")
ExtractOpenAI(data) ==
    IF data.t # "obj" THEN Raise
    ELSE LET choices == Get(data, "choices", Lst(<<EmptyObj>>))
         IN  IF choices.t # "list" \/ Len(choices.v) = 0 THEN Raise
             ELSE LET first == choices.v[1]
                  IN  IF first.t # "obj" THEN Raise
                      ELSE LET message == Get(first, "message", EmptyObj)
                           IN  IF message.t # "obj" THEN Raise
                               ELSE Ok(Get(message, "content", EmptyStr))

\* The content read from a 200 reply, by the variant of the endpoint.
ChatExtract(endpoint, data) ==
    IF ChatExtractIsOllama(endpoint)
    THEN ExtractOllama(data)
    ELSE ExtractOpenAI(data)

\* What _call_local_llm returns once requests.post has ended in `outcome`.
ChatResult(endpoint, outcome) ==
    IF outcome.kind = "raise"
    THEN Obj([error |-> ErrConnecting])
    ELSE IF outcome.status # 200
    THEN Obj([error |-> ErrStatus])
    ELSE IF outcome.body = NotJson
    THEN Obj([error |-> ErrConnecting])     \* requests' JSONDecodeError
    ELSE LET got == ChatExtract(endpoint, outcome.body)
         IN  IF got.ok
             THEN Obj([content |-> got.val])
             ELSE Obj([error |-> ErrUnexpected])

\* _call_local_llm with one retry after a network failure.
CallLocalLLMRetrying(endpoint, model, messages, temperature, outcome) ==
    IF endpoint.t # "str"
    THEN [result |-> Obj([error |-> ErrUnexpected]), calls |-> <<>>]
    ELSE LET request == ChatRequest(endpoint.v, model, messages, temperature)
         IN  [result |-> ChatResult(endpoint.v, outcome),
              calls |-> IF outcome.kind = "raise"
                        THEN <<request, request>>
                        ELSE <<request>>]

\* _call_local_llm: the dict it returns and the outbound calls it made.  An
\* endpoint that is not a string raises in the variant test, before any POST.
CallLocalLLM(endpoint, model, messages, temperature, outcome) ==
    IF endpoint.t # "str"
    THEN [result |-> Obj([error |-> ErrUnexpected]), calls |-> <<>>]
    ELSE [result |-> ChatResult(endpoint.v, outcome),
          calls |-> <<ChatRequest(endpoint.v, model, messages, temperature)>>]

(***************************************************************************)
(* POST /api/chat                                                          *)
(***************************************************************************)
User(c) == Obj([role |-> Str(<<"user">>), content |-> Str(c)])
System(prompt) == Obj([role |-> Str(<<"system">>), content |-> prompt])

ModelName == Str(<<"llama3">>)
DefaultTemperature == Num(<<"0",".","8">>)

EndpointValues == {Absent, Null} \cup {Str(e) : e \in EndpointStrings}

\* The JSON bodies a client may post to /api/chat.
ChatBodies ==
    {Null}
    \cup { MkObj(c) : c \in
             [model : {Absent, EmptyStr, ModelName},
              messages : {Absent, Null, Lst(<<>>), Lst(<<User(Hi)>>)},
              endpoint : EndpointValues,
              systemPrompt : {Absent, Str(<<"be brief">>)},
              temperature : {Absent, Num(<<"0",".","2">>)}] }

ErrModelRequired == Str(<<"Model name is required">>)
ErrException == Str(<<"str(e)">>)

\* A handler's response, with the outbound calls it made on the way and how
\* each of them ended.
Reply(status, body, calls, outcomes) ==
    [status |-> status, body |-> body, calls |-> calls, outcomes |-> outcomes]

NoReply == Reply(0, Null, <<>>, <<>>)

\* The chat handler on request body `data`, the runtime answering the
\* outbound call (if one is made) with `outcome`.
ChatHandler(data, outcome) ==
    IF data.t # "obj"
    THEN \* data.get raises AttributeError
         Reply(500, Obj([error |-> ErrException]), <<>>, <<>>)
    ELSE
    LET messages == Get(data, "messages", Lst(<<>>))
        temperature == Get(data, "temperature", DefaultTemperature)
        endpoint == Get(data, "endpoint", Str(DefaultEndpoint))
        model == Get(data, "model", EmptyStr)
        system_prompt == Get(data, "systemPrompt", EmptyStr)
        with_system == IF Truthy(system_prompt)
                       THEN <<System(system_prompt)>> ELSE <<>>
    IN  IF ~Truthy(model)
        THEN Reply(400, Obj([error |-> ErrModelRequired]), <<>>, <<>>)
        ELSE IF messages.t # "list"
        THEN \* api_messages.extend(messages) raises TypeError
             Reply(500, Obj([error |-> ErrException]), <<>>, <<>>)
        ELSE
        LET api_messages == with_system \o messages.v
            call == CallLocalLLM(endpoint, model, api_messages,
                                 temperature, outcome)
            ended == IF call.calls = <<>> THEN <<>> ELSE <<outcome>>
        IN  IF Truthy(Get(call.result, "error", Null))
            THEN Reply(500, call.result, call.calls, ended)
            ELSE Reply(200,
                       Obj([response |-> Get(call.result, "content", EmptyStr)]),
                       call.calls, ended)

\* The outbound calls of the handler; they do not depend on how they end.
ChatCalls(data) == ChatHandler(data, NoCall).calls

\* A worker thread: the route and body of its request, and its progress.
Thread(pc, route, data, reply) ==
    [pc |-> pc, route |-> route, data |-> data, reply |-> reply, local |-> Null]

\* A subprocess call: subprocess.run or subprocess.Popen of a command line.
Run(cmd) == [via |-> "run", to |-> cmd, payload |-> Null]
Popen(cmd) == [via |-> "Popen", to |-> cmd, payload |-> Null]

\* How a subprocess call ends: the process exits with a return code, Popen
\* returns with the process started, or the call raises (Raised).
Exited(rc) == [kind |-> "exit", exc |-> "", status |-> rc, body |-> NotJson]
Started == [kind |-> "started", exc |-> "", status |-> 0, body |-> NotJson]

IdleThread == Thread("idle", "", Null, NoReply)

\* POST /api/chat arrives: the handler runs up to its response, or up to the
\* outbound POST it blocks on.
ChatBegin(t) ==
    /\ proc.alive
    /\ th[t].pc = "idle"
    /\ \E data \in ChatBodies :
         th' = [th EXCEPT ![t] =
                  IF ChatCalls(data) = <<>>
                  THEN Thread("done", "/api/chat", data,
                              ChatHandler(data, NoCall))
                  ELSE Thread("chat_post", "/api/chat", data,
                              Reply(0, Null, ChatCalls(data), <<>>))]
    /\ UNCHANGED <<files, clock, history, latest, proc>>

\* requests.post ends, in a response or in an exception, and the handler
\* runs to its response.
ChatEnd(t) ==
    /\ proc.alive
    /\ th[t].pc = "chat_post"
    /\ \E outcome \in ChatOutcomes :
         th' = [th EXCEPT ![t].pc = "done",
                          ![t].reply = ChatHandler(th[t].data, outcome)]
    /\ UNCHANGED <<files, clock, history, latest, proc>>

\* The response is sent; the thread is free for the next request.
Return(t) ==
    /\ proc.alive
    /\ th[t].pc = "done"
    /\ th' = [th EXCEPT ![t] = IdleThread]
    /\ UNCHANGED <<files, clock, history, latest, proc>>

(***************************************************************************)
(* _get_available_models and GET /api/models                               *)
(***************************************************************************)
Named(key, c) == Obj([k \in {key} |-> Str(c)])
ModelA == <<"a">>
ModelB == <<"b">>

\* Bodies the runtime may send with a model listing.
ListingBodies ==
    { NotJson,
      Null,
      EmptyObj,
      Obj([models |-> Null]),
      Obj([models |-> Lst(<<>>)]),
      Obj([models |-> Lst(<<Null>>)]),
      Obj([models |-> Lst(<<Named("name", ModelA)>>)]),
      Obj([models |-> Lst(<<Named("name", ModelA), Named("name", ModelB)>>)]),
      Obj([models |-> Lst(<<Named("name", ModelB), Named("name", ModelA)>>)]),
      Obj([models |-> Lst(<<Named("name", ModelA), EmptyObj>>)]),
      Obj([models |-> Lst(<<Named("id", ModelA)>>)]),
      Obj([data |-> Lst(<<>>)]),
      Obj([data |-> Lst(<<Named("id", ModelB)>>)]),
      Obj([data |-> Lst(<<Named("id", ModelA), Named("id", ModelB)>>)]),
      Obj([data |-> Lst(<<Named("id", ModelB), Named("id", ModelA)>>)]),
      Obj([data |-> Lst(<<Named("id", ModelB), Named("name", ModelA)>>)]),
      Obj([models |-> Lst(<<Named("name", ModelA)>>),
           data |-> Lst(<<Named("id", ModelB)>>)]) }

ListingOutcomes ==
    NetworkFailures
    \cup {Answered(404, NotJson), Answered(500, EmptyObj)}
    \cup {Answered(200, b) : b \in ListingBodies}

\* The variant test of _get_available_models.
ModelsIsOllama(endpoint) ==
    Contains(Port11434, endpoint) \/ Contains(OllamaWord, Lower(endpoint))

\* api_url of the listing request.
ModelsUrl(endpoint) ==
    IF ModelsIsOllama(endpoint)
    THEN endpoint \o PathApiTags
    ELSE endpoint \o PathV1Models

\* [model.get(key) for ... if key in model]: entries without the key are
\* skipped instead of raising.
ListNamesSkipping(data, listKey, key) ==
    IF data.t # "obj" THEN Raise
    ELSE LET entries == Get(data, listKey, Lst(<<>>))
             HasKey(x) == x.t = "obj" /\ key \in DOMAIN x.v
         IN  IF entries.t # "list" THEN Raise
             ELSE LET kept == SelectSeq(entries.v, HasKey)
                  IN  Ok([i \in DOMAIN kept |-> kept[i].v[key]])

\* [model[key] for model in data.get(listKey, [])]
ListNames(data, listKey, key) ==
    IF data.t # "obj" THEN Raise
    ELSE LET entries == Get(data, listKey, Lst(<<>>))
         IN  IF entries.t # "list" THEN Raise
             ELSE IF \E i \in DOMAIN entries.v :
                        \/ entries.v[i].t # "obj"
                        \/ key \notin DOMAIN entries.v[i].v
             THEN Raise
             ELSE Ok([i \in DOMAIN entries.v |-> entries.v[i].v[key]])

\* The list _get_available_models returns once requests.get has ended in
\* `outcome`: every exception ends in the except branch's [].
ModelsResult(endpoint, outcome) ==
    IF outcome.kind = "raise" THEN <<>>
    ELSE IF outcome.status # 200 THEN <<>>
    ELSE IF outcome.body = NotJson THEN <<>>
    ELSE LET got == IF ModelsIsOllama(endpoint)
                    THEN ListNames(outcome.body, "models", "name")
                    ELSE ListNames(outcome.body, "data", "id")
         IN  IF got.ok THEN got.val ELSE <<>>

\* _get_available_models: the list it returns and the outbound call it made.
GetAvailableModels(endpoint, outcome) ==
    [result |-> ModelsResult(endpoint, outcome),
     calls |-> <<HttpGet(ModelsUrl(endpoint))>>]

\* request.args.get("endpoint", "http://localhost:11434")
QueryEndpoint(args) == Get(args, "endpoint", Str(DefaultEndpoint)).v

\* The query strings a client may send to /api/models and /api/llm_status.
EndpointQueries ==
    {MkObj([endpoint |-> e]) : e \in {Absent} \cup {Str(s) : s \in EndpointStrings}}

\* The get_models handler.
ModelsHandler(args, outcome) ==
    LET call == GetAvailableModels(QueryEndpoint(args), outcome)
    IN  Reply(200, Obj([models |-> Lst(call.result)]), call.calls, <<outcome>>)

\* GET /api/models arrives: the handler runs up to the outbound GET.
ModelsBegin(t) ==
    /\ proc.alive
    /\ th[t].pc = "idle"
    /\ \E args \in EndpointQueries :
         th' = [th EXCEPT ![t] =
                  Thread("models_get", "/api/models", args,
                         Reply(0, Null, ModelsHandler(args, NoCall).calls, <<>>))]
    /\ UNCHANGED <<files, clock, history, latest, proc>>

\* requests.get ends and the handler runs to its response.
ModelsEnd(t) ==
    /\ proc.alive
    /\ th[t].pc = "models_get"
    /\ \E outcome \in ListingOutcomes :
         th' = [th EXCEPT ![t].pc = "done",
                          ![t].reply = ModelsHandler(th[t].data, outcome)]
    /\ UNCHANGED <<files, clock, history, latest, proc>>

(***************************************************************************)
(* _check_llm_status and GET /api/llm_status                               *)
(***************************************************************************)
\* platform.system()
Platforms == {"Linux", "Darwin", "Windows", "FreeBSD"}

\* The install lookup: `where ollama` on Windows, `which ollama` elsewhere.
CheckCmd(system) ==
    IF system = "Windows" THEN <<"where", "ollama">> ELSE <<"which", "ollama">>

\* How subprocess.run(..., timeout=...) may end.
RunOutcomes ==
    {Exited(0), Exited(1), Raised("FileNotFoundError"), Raised("TimeoutExpired")}

\* installed unless the lookup exits non-zero: a lookup that raises counts
\* as installed.
InstalledUnlessExit(lookup) == ~(lookup.kind = "exit" /\ lookup.status # 0)

\* status_info["installed"]: result.returncode == 0; an exception leaves the
\* initial False.
Installed(lookup) == lookup.kind = "exit" /\ lookup.status = 0

\* active_model taken from the end of the listing (models[-1]).
ServingLast(models) ==
    IF models # <<>>
    THEN [running |-> TRUE, models |-> Lst(models),
          active_model |-> models[Len(models)]]
    ELSE [running |-> FALSE, models |-> Lst(<<>>), active_model |-> Null]

\* running, models and active_model of status_info, from the model listing.
Serving(models) ==
    IF models # <<>>
    THEN [running |-> TRUE, models |-> Lst(models), active_model |-> models[1]]
    ELSE [running |-> FALSE, models |-> Lst(<<>>), active_model |-> Null]

\* _check_llm_status: the status_info it returns and the calls it made.
CheckLLMStatus(endpoint, system, lookup, outcome) ==
    LET listed == GetAvailableModels(endpoint, outcome)
        serving == Serving(listed.result)
    IN  [result |-> Obj([running |-> serving.running,
                         installed |-> Installed(lookup),
                         endpoint |-> Str(endpoint),
                         models |-> serving.models,
                         active_model |-> serving.active_model,
                         platform |-> system]),
         calls |-> <<Run(CheckCmd(system))>> \o listed.calls]

\* The llm_status handler on a host of platform `system`.
StatusHandler(args, system, lookup, outcome) ==
    LET call == CheckLLMStatus(QueryEndpoint(args), system, lookup, outcome)
    IN  Reply(200, call.result, call.calls, <<lookup, outcome>>)

\* GET /api/llm_status arrives: the install lookup runs, and the handler
\* blocks on the outbound GET of the model listing.
StatusBegin(t) ==
    /\ proc.alive
    /\ th[t].pc = "idle"
    /\ \E args \in EndpointQueries, system \in Platforms, lookup \in RunOutcomes :
         th' = [th EXCEPT ![t] =
                  Thread("status_get", "/api/llm_status",
                         [args |-> args, system |-> system],
                         Reply(0, Null,
                               StatusHandler(args, system, lookup, NoCall).calls,
                               <<lookup>>))]
    /\ UNCHANGED <<files, clock, history, latest, proc>>

\* requests.get ends and the handler runs to its response.
StatusEnd(t) ==
    /\ proc.alive
    /\ th[t].pc = "status_get"
    /\ \E outcome \in ListingOutcomes :
         th' = [th EXCEPT ![t].pc = "done",
                          ![t].reply =
                              StatusHandler(th[t].data.args, th[t].data.system,
                                            th[t].reply.outcomes[1], outcome)]
    /\ UNCHANGED <<files, clock, history, latest, proc>>

(***************************************************************************)
(* _start_llm_service and POST /api/start_llm                              *)
(***************************************************************************)
ServeCmd == <<"ollama", "serve">>

\* The platform's service manager invocation.
PreferredCmd(system) ==
    CASE system = "Linux"   -> <<"systemctl", "start", "ollama">>
      [] system = "Darwin"  -> <<"brew", "services", "start", "ollama">>
      [] system = "Windows" -> <<"net", "start", "Ollama">>
      [] OTHER              -> <<>>

\* How subprocess.Popen may end.
PopenOutcomes == {Started, Raised("FileNotFoundError")}

\* The test inverted: `if result.returncode == 0`.
NotInstalledInverted(lookup) == lookup.kind = "exit" /\ lookup.status = 0

\* `if result.returncode != 0`: the lookup says the runtime is not installed.
NotInstalled(lookup) == lookup.kind = "exit" /\ lookup.status # 0

\* subprocess.run(..., check=True) raises CalledProcessError.
CalledProcessError(outcome) == outcome.kind = "exit" /\ outcome.status # 0

\* A fallback after every failure of the preferred command, on every
\* supported platform.
FallsBackOnAnyFailure(system, preferred) ==
    system \in {"Linux", "Darwin", "Windows"} /\ preferred # Exited(0)

\* The inner except clause that leads to the `ollama serve` fallback:
\* CalledProcessError on Linux, (CalledProcessError, FileNotFoundError) on
\* macOS, none on Windows.
FallsBack(system, preferred) ==
    \/ system = "Linux" /\ CalledProcessError(preferred)
    \/ system = "Darwin" /\ \/ CalledProcessError(preferred)
                            \/ preferred = Raised("FileNotFoundError")

Success(message) == Obj([success |-> TRUE, message |-> Str(<<message>>)])

\* The result of the outer except clause.
StartFailed ==
    Obj([success |-> FALSE, error |-> ErrException,
         message |-> Str(<<"Try running 'ollama serve' manually in a terminal">>)])

StartResult(result, calls, outcomes) ==
    [result |-> result, calls |-> calls, outcomes |-> outcomes]

\* _start_llm_service on a host of platform `system`: the dict it returns,
\* the subprocess calls it made, in order, and how each ended.
StartLLMService(system, lookup, preferred, fallback) ==
    LET check == Run(CheckCmd(system))
        first == Run(PreferredCmd(system))
        serve == Popen(ServeCmd)
    IN  IF NotInstalled(lookup)
        THEN StartResult(Obj([success |-> FALSE,
                           error |-> Str(<<"Ollama is not installed">>),
                           message |-> Str(<<"Please install Ollama">>),
                           install_url |-> Str(<<"https://ollama.com/download">>)]),
                      <<check>>, <<lookup>>)
        ELSE IF lookup.kind = "raise"
        THEN StartResult(Obj([success |-> FALSE,
                           error |-> Str(<<"Error checking Ollama installation">>)]),
                      <<check>>, <<lookup>>)
        ELSE IF system \notin {"Linux", "Darwin", "Windows"}
        THEN StartResult(Obj([success |-> FALSE,
                           error |-> Str(<<"Unsupported platform">>)]),
                      <<check>>, <<lookup>>)
        ELSE IF preferred = Exited(0)
        THEN StartResult(Success(CASE system = "Linux" ->
                                     "Ollama service started via systemctl"
                                [] system = "Darwin" ->
                                     "Ollama service started via brew services"
                                [] OTHER -> "Ollama service started"),
                      <<check, first>>, <<lookup, preferred>>)
        ELSE IF FallsBack(system, preferred)
        THEN IF fallback = Started
             THEN StartResult(Success("Ollama started in background"),
                           <<check, first, serve>>,
                           <<lookup, preferred, fallback>>)
             ELSE StartResult(StartFailed, <<check, first, serve>>,
                           <<lookup, preferred, fallback>>)
        ELSE IF system = "Windows" /\ CalledProcessError(preferred)
        THEN StartResult(Obj([success |-> FALSE,
                           error |-> Str(<<"Could not start Ollama service">>),
                           message |-> Str(<<"Please start Ollama from the Start Menu">>)]),
                      <<check, first>>, <<lookup, preferred>>)
        ELSE StartResult(StartFailed, <<check, first>>, <<lookup, preferred>>)

\* POST /api/start_llm, handled to its response on a host of platform
\* `system`; the subprocesses end as the environment decides.
StartLLM(t) ==
    /\ proc.alive
    /\ th[t].pc = "idle"
    /\ \E system \in Platforms, lookup \in RunOutcomes,
          preferred \in RunOutcomes, fallback \in PopenOutcomes :
         LET call == StartLLMService(system, lookup, preferred, fallback)
         IN  th' = [th EXCEPT ![t] =
                      Thread("done", "/api/start_llm", [system |-> system],
                             Reply(200, call.result, call.calls, call.outcomes))]
    /\ UNCHANGED <<files, clock, history, latest, proc>>

(***************************************************************************)
(* The transcript store: POST /api/save_conversation                       *)
(***************************************************************************)
\* The clock is read in ticks, TicksPerSec of them to the second, and runs
\* up to MaxClock.
TicksPerSec == 2
MaxClock == 3

\* Time passes.
Tick ==
    /\ clock < MaxClock
    /\ clock' = clock + 1
    /\ UNCHANGED <<th, files, history, latest, proc>>

\* strftime at minute precision ("%Y%m%d_%H%M"), two seconds to the minute.
StampByMinute(now) == (now \div TicksPerSec) \div 2

\* datetime.now().strftime("%Y%m%d_%H%M%S"): the reading cut to the second.
Stamp(now) == now \div TicksPerSec

\* f"conversation_{timestamp}.json"
FileName(stamp) == <<"conversation_", stamp, ".json">>

\* datetime.now().isoformat(): the second and the fraction of the reading.
IsoFormat(now) == [sec |-> now \div TicksPerSec, frac |-> now % TicksPerSec]

\* A file's content: nothing yet (just opened with "w"), a JSON document,
\* or bytes that json.load cannot parse; size is its length, counted in
\* messages.
SizeOf(doc) == Len(doc.messages.v)
EmptyFile == [kind |-> "empty", doc |-> Null, size |-> 0]
JsonFile(doc) == [kind |-> "json", doc |-> doc, size |-> SizeOf(doc)]
Garbage(size) == [kind |-> "garbage", doc |-> Null, size |-> size]

\* The file after `doc` is written from offset 0 over what is there: bytes
\* of a longer content that another writer put there stay behind it.
Overlay(old, doc) ==
    IF old.size > SizeOf(doc) THEN Garbage(old.size) ELSE JsonFile(doc)

\* The file after a write that broke off: a part of a document, over what
\* was there.
Partial(old) == Garbage(IF old.size > 1 THEN old.size ELSE 1)

\* The directory with file `name` set to `content`.
WithFile(name, content) ==
    [n \in DOMAIN files \cup {name} |-> IF n = name THEN content ELSE files[n]]

Assistant(c) == Obj([role |-> Str(<<"assistant">>), content |-> Str(c)])

\* The JSON bodies a client may post to /api/save_conversation.
SaveBodies ==
    {Null}
    \cup { MkObj([messages |-> x]) : x \in
             {Absent, Null, Lst(<<>>), Lst(<<User(Hi)>>),
              Lst(<<User(Hi), Assistant(Yo)>>)} }

ErrNoMessages == Str(<<"No messages to save">>)

\* The history once a save request has generated file name `name` for
\* `messages`: how many requests generated the name (one, or more), and the
\* messages of the first.
Generated(name, messages) ==
    [n \in DOMAIN history \cup {name} |->
        IF n # name THEN history[n]
        ELSE IF name \in DOMAIN history
        THEN [saves |-> 2, messages |-> history[name].messages]
        ELSE [saves |-> 1, messages |-> messages]]

\* POST /api/save_conversation arrives: the body is read and checked, and
\* the filename is made from the clock.
SaveBegin(t) ==
    /\ proc.alive
    /\ th[t].pc = "idle"
    /\ \E data \in SaveBodies :
         /\ th' = [th EXCEPT ![t] =
                  IF data.t # "obj"
                  THEN Thread("done", "/api/save_conversation", data,
                              Reply(500, Obj([error |-> ErrException]), <<>>, <<>>))
                  ELSE IF ~Truthy(Get(data, "messages", Lst(<<>>)))
                  THEN Thread("done", "/api/save_conversation", data,
                              Reply(400, Obj([error |-> ErrNoMessages]), <<>>, <<>>))
                  ELSE [Thread("save_open", "/api/save_conversation", data, NoReply)
                          EXCEPT !.local = [filename |-> FileName(Stamp(clock)),
                                            read_at |-> clock]]]
         /\ history' = IF data.t = "obj" /\ Truthy(Get(data, "messages", Lst(<<>>)))
                       THEN Generated(FileName(Stamp(clock)),
                                      Get(data, "messages", Lst(<<>>)))
                       ELSE history
         /\ latest' = IF data.t = "obj" /\ Truthy(Get(data, "messages", Lst(<<>>)))
                      THEN Null
                      ELSE latest
    /\ UNCHANGED <<files, clock, proc>>

\* open(filepath, "w"): the file is created or truncated, or open raises.
SaveOpen(t) ==
    /\ proc.alive
    /\ th[t].pc = "save_open"
    /\ \/ /\ files' = WithFile(th[t].local.filename, EmptyFile)
          /\ th' = [th EXCEPT ![t].pc = "save_dump"]
          /\ latest' = Null
       \/ /\ th' = [th EXCEPT ![t].pc = "done",
                              ![t].reply = Reply(500, Obj([error |-> ErrException]),
                                                 <<>>, <<>>)]
          /\ UNCHANGED <<files, latest>>
    /\ UNCHANGED <<clock, history, proc>>

\* json.dump({"timestamp": datetime.now().isoformat(), "messages": messages})
\* and the close of the file: the document reaches the file, or the write
\* raises and leaves the file as it is or with a part of the document in it.
SaveDump(t) ==
    /\ proc.alive
    /\ th[t].pc = "save_dump"
    /\ LET name == th[t].local.filename
           doc == [timestamp |-> IsoFormat(clock),
                   messages |-> Get(th[t].data, "messages", Lst(<<>>))]
       IN  \/ /\ files' = WithFile(name, Overlay(files[name], doc))
              /\ th' = [th EXCEPT ![t].pc = "done",
                                  ![t].local = [filename |-> name,
                                                read_at |-> th[t].local.read_at,
                                                doc |-> doc],
                                  ![t].reply =
                                      Reply(200,
                                            Obj([success |-> TRUE,
                                                 filename |-> name,
                                                 path |-> <<"~/.local_llm_chat/conversations/">> \o name]),
                                            <<>>, <<>>)]
              /\ latest' = [filename |-> name,
                            messages |-> doc.messages,
                            read_at |-> th[t].local.read_at]
           \/ /\ th' = [th EXCEPT ![t].pc = "done",
                                  ![t].reply = Reply(500, Obj([error |-> ErrException]),
                                                     <<>>, <<>>)]
              /\ \/ UNCHANGED <<files, latest>>
                 \/ /\ files' = WithFile(name, Partial(files[name]))
                    /\ latest' = Null
    /\ UNCHANGED <<clock, history, proc>>

(***************************************************************************)
(* The transcript store: GET /api/conversations                            *)
(***************************************************************************)
\* sorted(storage_dir.glob("conversation_*.json"), reverse=True): the names,
\* largest first; the stamps have a fixed width, so names order as stamps.
RECURSIVE SortedDesc(_)
SortedDesc(names) ==
    IF names = {} THEN <<>>
    ELSE LET top == CHOOSE n \in names : \A o \in names : o[2] <= n[2]
         IN  <<top>> \o SortedDesc(names \ {top})

\* len(x) of a loaded value: defined for a list, a string and an object.
HasLen(x) == x.t \in {"list", "str", "obj"}
Count(x) == IF x.t = "obj" THEN Cardinality(DOMAIN x.v) ELSE Len(x.v)

\* The entry of a file that is read and parsed.
Entry(name) ==
    [filename |-> name,
     timestamp |-> files[name].doc.timestamp,
     message_count |-> Count(files[name].doc.messages)]

\* A listing whose loop ends at the first file that fails to open or parse.
ConversationsStopping(unreadable) ==
    LET Parses(name) ==
            /\ name \notin unreadable
            /\ files[name].kind = "json"
            /\ HasLen(files[name].doc.messages)
        names == SortedDesc(DOMAIN files)
        failed == {i \in DOMAIN names : ~Parses(names[i])}
        kept == {i \in DOMAIN names : \A j \in failed : i < j}
    IN  [i \in kept |-> Entry(names[i])]

\* The listing when open() raises for the files in `unreadable`: an entry
\* per file that opens, loads as JSON and whose messages have a length, in
\* the order of the sorted names; every other file is skipped.
Conversations(unreadable) ==
    LET Parses(name) ==
            /\ name \notin unreadable
            /\ files[name].kind = "json"
            /\ HasLen(files[name].doc.messages)
        kept == SelectSeq(SortedDesc(DOMAIN files), Parses)
    IN  [i \in DOMAIN kept |-> Entry(kept[i])]

\* GET /api/conversations, handled to its response, when open() raises for
\* the files in `unreadable`, which are kept in `local`.
ListReading(t, unreadable) ==
    /\ proc.alive
    /\ th[t].pc = "idle"
    /\ th' = [th EXCEPT ![t] =
                [Thread("done", "/api/conversations", Null,
                        Reply(200,
                              Obj([conversations |->
                                     Lst(Conversations(unreadable))]),
                              <<>>, <<>>))
                   EXCEPT !.local = [unreadable |-> unreadable]]]
    /\ UNCHANGED <<files, clock, history, latest, proc>>

\* GET /api/conversations on a directory whose files all open.
ListConversations(t) == ListReading(t, {})

\* GET /api/conversations when any of the files may fail to open.
ListConversationsFailing(t) ==
    \E unreadable \in SUBSET DOMAIN files : ListReading(t, unreadable)

(***************************************************************************)
(* The server process: POST /api/shutdown                                  *)
(***************************************************************************)
\* The process under a WSGI server of kind `server`: running, with the
\* request threads that called the server's shutdown function (signal) and
\* the times at which its delayed_shutdown threads wake (timers).
Process(server) ==
    [server |-> server, alive |-> TRUE, signal |-> {}, timers |-> {}]

\* request.environ.get("werkzeug.server.shutdown") is a function under the
\* werkzeug server and None under any other.
HasShutdownFunc == proc.server = "werkzeug"

MsgShuttingDown == Str(<<"Server shutting down...">>)
ErrShutdown == Str(<<"Shutdown failed: ", "str(e)">>)

\* POST /api/shutdown, handled to its response: func() is called and
\* returns, or a daemon thread running delayed_shutdown is started, which
\* sleeps for a second; a thread that cannot be started raises.
ShutdownBegin(t) ==
    /\ proc.alive
    /\ th[t].pc = "idle"
    /\ \/ /\ HasShutdownFunc
          /\ proc' = [proc EXCEPT !.signal = @ \cup {t}]
          /\ th' = [th EXCEPT ![t] =
                      Thread("done", "/api/shutdown", Null,
                             Reply(200, Obj([message |-> MsgShuttingDown]),
                                   <<>>, <<>>))]
       \/ /\ ~HasShutdownFunc
          /\ clock + TicksPerSec <= MaxClock
          /\ proc' = [proc EXCEPT !.timers = @ \cup {clock + TicksPerSec}]
          /\ th' = [th EXCEPT ![t] =
                      Thread("done", "/api/shutdown", Null,
                             Reply(200, Obj([message |-> MsgShuttingDown]),
                                   <<>>, <<>>))]
       \/ /\ ~HasShutdownFunc
          /\ UNCHANGED proc
          /\ th' = [th EXCEPT ![t] =
                      Thread("done", "/api/shutdown", Null,
                             Reply(500, Obj([error |-> ErrShutdown]),
                                   <<>>, <<>>))]
    /\ UNCHANGED <<files, clock, history, latest>>

\* delayed_shutdown: time.sleep(1) has returned and os._exit(0) ends the
\* process, its request threads with it.
DelayedShutdown ==
    /\ proc.alive
    /\ \E wake \in proc.timers : wake <= clock
    /\ proc' = [proc EXCEPT !.alive = FALSE]
    /\ UNCHANGED <<th, files, clock, history, latest>>

\* The werkzeug server stops once a request that called its shutdown
\* function has been handled and its response returned.
ServerStop ==
    /\ proc.alive
    /\ \E t \in proc.signal :
           ~(th[t].route = "/api/shutdown" /\ th[t].pc = "done")
    /\ proc' = [proc EXCEPT !.alive = FALSE]
    /\ UNCHANGED <<th, files, clock, history, latest>>

(***************************************************************************)
(* Specifications                                                          *)
(***************************************************************************)
Init ==
    /\ th = [t \in Workers |-> IdleThread]
    /\ files = [n \in {} |-> EmptyFile]
    /\ clock = 0
    /\ history = [n \in {} |-> [saves |-> 0, messages |-> Null]]
    /\ latest = Null
    /\ proc = Process("other")

\* The adapter under chat and model-listing requests, one at a time.
NextAdapter ==
    \E t \in {"w1"} :
        \/ ChatBegin(t)
        \/ ChatEnd(t)
        \/ ModelsBegin(t)
        \/ ModelsEnd(t)
        \/ Return(t)

SpecAdapter == Init /\ [][NextAdapter]_vars

\* The lifecycle probe under status and start requests, one at a time.
NextProbe ==
    \E t \in {"w1"} :
        \/ StatusBegin(t)
        \/ StatusEnd(t)
        \/ StartLLM(t)
        \/ Return(t)

SpecProbe == Init /\ [][NextProbe]_vars

\* The store under concurrent save and list requests.
NextStore ==
    \/ Tick
    \/ \E t \in Workers :
           \/ SaveBegin(t)
           \/ SaveOpen(t)
           \/ SaveDump(t)
           \/ ListConversations(t)
           \/ Return(t)

SpecStore == Init /\ [][NextStore]_vars

\* The transcript store under save and list requests served one at a time,
\* with writes that break off and files that fail to open.
NextListing ==
    \/ Tick
    \/ \E t \in {"w1"} :
           \/ SaveBegin(t)
           \/ SaveOpen(t)
           \/ SaveDump(t)
           \/ ListConversationsFailing(t)
           \/ Return(t)

SpecListing == Init /\ [][NextListing]_vars

\* The server under shutdown requests, on either kind of WSGI server, with
\* listings served beside them.
InitShutdown ==
    /\ th = [t \in Workers |-> IdleThread]
    /\ files = [n \in {} |-> EmptyFile]
    /\ clock = 0
    /\ history = [n \in {} |-> [saves |-> 0, messages |-> Null]]
    /\ latest = Null
    /\ proc \in {Process("werkzeug"), Process("other")}

NextShutdown ==
    \/ Tick
    \/ DelayedShutdown
    \/ ServerStop
    \/ \E t \in {"w1"} : ShutdownBegin(t)
    \/ \E t \in Workers :
           \/ ListConversations(t)
           \/ Return(t)

SpecShutdown == InitShutdown /\ [][NextShutdown]_vars

\* Scheduling: time passes, a started thread runs, a response that has been
\* produced is returned, and the werkzeug server comes to stop even while
\* further requests arrive.
SpecShutdownFair ==
    /\ SpecShutdown
    /\ WF_vars(Tick)
    /\ WF_vars(DelayedShutdown)
    /\ WF_vars(Return("w1"))
    /\ SF_vars(ServerStop)

\* The request surface: chat, save and list requests served one at a time.
NextSurface ==
    \E t \in {"w1"} :
        \/ ChatBegin(t)
        \/ ChatEnd(t)
        \/ SaveBegin(t)
        \/ SaveOpen(t)
        \/ SaveDump(t)
        \/ Return(t)

SpecSurface == Init /\ [][NextSurface]_vars

(***************************************************************************)
(* Properties of the adapter                                               *)
(***************************************************************************)
\* The endpoint string names the Ollama-style variant: it contains "11434",
\* or "ollama" in any letter case.
NamesOllama(e) ==
    \/ \E i \in 1..(Len(e) - 4) : SubSeq(e, i, i + 4) = Port11434
    \/ \E i \in 1..(Len(e) - 5) : SubSeq(Lower(e), i, i + 5) = OllamaWord

ChatEndpointOf(t) == Get(th[t].data, "endpoint", Str(DefaultEndpoint)).v

\* The first outbound call of thread t ended in status 200 with a JSON body.
Answered200(t) ==
    /\ th[t].pc = "done"
    /\ th[t].reply.outcomes # <<>>
    /\ th[t].reply.outcomes[1].kind = "http"
    /\ th[t].reply.outcomes[1].status = 200

ReplyBodyOf(t) == th[t].reply.outcomes[1].body

\* C1: the chat call and the model listing select the same protocol variant
\* from the endpoint string: an endpoint that names Ollama is posted to at
\* <endpoint>/api/chat, its reply read at message.content, and listed at
\* <endpoint>/api/tags; any other endpoint is posted to at
\* <endpoint>/v1/chat/completions, its reply read at
\* choices[0].message.content, and listed at <endpoint>/v1/models.
C1_SameVariant ==
    \A t \in Workers :
        /\ (th[t].route = "/api/chat" /\ th[t].reply.calls # <<>>) =>
             LET e == ChatEndpointOf(t)
                 r == th[t].reply
             IN  /\ r.calls[1].via = "POST"
                 /\ r.calls[1].to =
                      e \o (IF NamesOllama(e) THEN PathApiChat ELSE PathV1Chat)
                 /\ (Answered200(t) /\ ReplyBodyOf(t) # NotJson) =>
                      LET got == IF NamesOllama(e)
                                 THEN ExtractOllama(ReplyBodyOf(t))
                                 ELSE ExtractOpenAI(ReplyBodyOf(t))
                      IN  IF got.ok
                          THEN r.status = 200
                               /\ r.body = Obj([response |-> got.val])
                          ELSE r.status = 500
        /\ (th[t].route = "/api/models" /\ th[t].reply.calls # <<>>) =>
             LET e == QueryEndpoint(th[t].data)
             IN  /\ th[t].reply.calls[1].via = "GET"
                 /\ th[t].reply.calls[1].to =
                      e \o (IF NamesOllama(e) THEN PathApiTags ELSE PathV1Models)

BothBody ==
    Obj([message |-> Content(Hi),
         choices |-> Lst(<<Obj([message |-> Content(Yo)])>>)])

\* C1's case: an endpoint that names Ollama only in upper case is answered a
\* body that carries both reply fields, and message.content is what is read.
C1_Witness ==
    /\ th["w1"].route = "/api/chat"
    /\ Answered200("w1")
    /\ ChatEndpointOf("w1") = Http \o <<"O","L","L","a","M","A">> \o <<":","8","0">>
    /\ ReplyBodyOf("w1") = BothBody
    /\ th["w1"].reply.body = Obj([response |-> Str(Hi)])

ChatDone(t) == th[t].route = "/api/chat" /\ th[t].pc = "done"

\* The response is the JSON object {error: ...} and carries no response key.
ErrorBody(body) ==
    /\ body.t = "obj"
    /\ "error" \in DOMAIN body.v
    /\ "response" \notin DOMAIN body.v

ResponseBody(body) == body.t = "obj" /\ "response" \in DOMAIN body.v

\* The single attempt failed: a network failure or a status other than 200.
AttemptFailed(t) ==
    /\ th[t].reply.outcomes # <<>>
    /\ \/ th[t].reply.outcomes[1].kind = "raise"
       \/ th[t].reply.outcomes[1].status # 200

\* How the one attempt maps to the handler's response.
C3_Mapping(t) ==
    LET r == th[t].reply
    IN  /\ AttemptFailed(t) => r.status = 500 /\ ErrorBody(r.body)
        /\ (r.status = 200 \/ ResponseBody(r.body)) =>
             /\ r.status = 200
             /\ ResponseBody(r.body)
             /\ Len(r.calls) = 1
             /\ Answered200(t)

HasModel(t) ==
    th[t].data.t = "obj" /\ Truthy(Get(th[t].data, "model", EmptyStr))

WellTyped(t) ==
    /\ Get(th[t].data, "messages", Lst(<<>>)).t = "list"
    /\ Get(th[t].data, "endpoint", Str(DefaultEndpoint)).t = "str"

HasField(x, key) == x.t = "obj" /\ key \in DOMAIN x.v

HasReplyField(isOllama, body) ==
    IF isOllama
    THEN /\ HasField(body, "message")
         /\ HasField(body.v["message"], "content")
    ELSE /\ HasField(body, "choices")
         /\ body.v["choices"].t = "list"
         /\ Len(body.v["choices"].v) > 0
         /\ HasField(body.v["choices"].v[1], "message")
         /\ HasField(body.v["choices"].v[1].v["message"], "content")

\* C4 as stated: a 200 reply whose body lacks the reply field of the
\* selected variant is answered 500 with {error}, never 200 with {response}.
C4_MalformedIs500 ==
    \A t \in Workers :
        (ChatDone(t) /\ Answered200(t)
           /\ ~HasReplyField(NamesOllama(ChatEndpointOf(t)), ReplyBodyOf(t))) =>
            /\ th[t].reply.status = 500
            /\ ErrorBody(th[t].reply.body)

\* Something on the way to the reply field is there but cannot be read: the
\* body is not JSON or not an object, message is not an object, choices is
\* not a list or is an empty list, or its first entry is not an object.
ObjOrMissing(x, key) == key \in DOMAIN x.v => x.v[key].t = "obj"

Unreadable(isOllama, body) ==
    \/ body.t # "obj"
    \/ isOllama /\ ~ObjOrMissing(body, "message")
    \/ /\ ~isOllama
       /\ "choices" \in DOMAIN body.v
       /\ \/ body.v["choices"].t # "list"
          \/ Len(body.v["choices"].v) = 0
          \/ body.v["choices"].v[1].t # "obj"
          \/ ~ObjOrMissing(body.v["choices"].v[1], "message")

\* C4 (amended): a 200 reply whose body cannot be read on the way to the
\* reply field (not JSON, not an object, a message that is not an object, a
\* choices that is not a list or is empty, a first choice that is not an
\* object) is answered 500 with {error}; a 200 reply whose body is an
\* object that only lacks a key on that way (message, choices, content) is
\* answered 200 with {response: ""}.
C4_MalformedReply ==
    \A t \in Workers :
        (ChatDone(t) /\ Answered200(t)) =>
            LET isOllama == NamesOllama(ChatEndpointOf(t))
                body == ReplyBodyOf(t)
                r == th[t].reply
            IN  /\ Unreadable(isOllama, body) =>
                     r.status = 500 /\ ErrorBody(r.body)
                /\ (~Unreadable(isOllama, body)
                      /\ ~HasReplyField(isOllama, body)) =>
                     r.status = 200 /\ r.body = Obj([response |-> EmptyStr])

\* C4's case: an OpenAI-compatible endpoint answers 200 with an empty
\* choices list and the handler answers 500.
C4_Witness ==
    /\ ChatDone("w1")
    /\ Answered200("w1")
    /\ ~NamesOllama(ChatEndpointOf("w1"))
    /\ ReplyBodyOf("w1") = Obj([choices |-> Lst(<<>>)])
    /\ th["w1"].reply.status = 500
    /\ ErrorBody(th["w1"].reply.body)

ModelsDone(t) == th[t].route = "/api/models" /\ th[t].pc = "done"

\* The entries of a listing body under the variant's key, when the body is
\* a listing in which every entry carries the variant's name key.
ListKey(isOllama) == IF isOllama THEN "models" ELSE "data"
NameKey(isOllama) == IF isOllama THEN "name" ELSE "id"

WellFormedListing(isOllama, body) ==
    /\ HasField(body, ListKey(isOllama))
    /\ body.v[ListKey(isOllama)].t = "list"
    /\ \A i \in DOMAIN body.v[ListKey(isOllama)].v :
           HasField(body.v[ListKey(isOllama)].v[i], NameKey(isOllama))

\* C5: _get_available_models never raises and returns [] on every failure
\* (network failure, non-200 status, a body that is not JSON, an entry
\* without the expected key); it returns a non-empty list only after a 200
\* response whose entries all carry the key, in the runtime's order.
C5_ListingNeverFails ==
    \A t \in Workers :
        ModelsDone(t) =>
            LET isOllama == NamesOllama(QueryEndpoint(th[t].data))
                r == th[t].reply
                names == r.body.v["models"].v
                body == ReplyBodyOf(t)
            IN  /\ r.status = 200
                /\ r.body.t = "obj" /\ r.body.v["models"].t = "list"
                /\ (~Answered200(t) \/ ~WellFormedListing(isOllama, body)) =>
                     names = <<>>
                /\ names # <<>> =>
                     LET entries == body.v[ListKey(isOllama)].v
                     IN  /\ Len(names) = Len(entries)
                         /\ \A i \in DOMAIN entries :
                                names[i] = entries[i].v[NameKey(isOllama)]

\* C5's case: the Ollama-style listing holds an entry without a name, and
\* the result is the empty list.
C5_Witness ==
    /\ ModelsDone("w1")
    /\ Answered200("w1")
    /\ NamesOllama(QueryEndpoint(th["w1"].data))
    /\ ReplyBodyOf("w1") =
         Obj([models |-> Lst(<<Named("name", ModelA), EmptyObj>>)])
    /\ th["w1"].reply.body = Obj([models |-> Lst(<<>>)])

(***************************************************************************)
(* Properties of the lifecycle probe                                       *)
(***************************************************************************)
StatusDone(t) == th[t].route = "/api/llm_status" /\ th[t].pc = "done"

\* The model listing that the status call obtained for its endpoint.
ListedFor(t) ==
    ModelsResult(QueryEndpoint(th[t].data.args), th[t].reply.outcomes[2])

\* C6: in every status object, running is true iff the model listing for
\* the endpoint was non-empty; when running, models is that listing and
\* active_model its first entry; when not running, models is empty and
\* active_model is null.  The call never raises (the handler answers 200),
\* whatever the install lookup and the listing do.
C6_StatusFollowsListing ==
    \A t \in Workers :
        StatusDone(t) =>
            LET info == th[t].reply.body.v
                listed == ListedFor(t)
            IN  /\ th[t].reply.status = 200
                /\ info.running = (listed # <<>>)
                /\ info.running =>
                     /\ info.models = Lst(listed)
                     /\ info.active_model = listed[1]
                /\ ~info.running =>
                     /\ info.models = Lst(<<>>)
                     /\ info.active_model = Null

\* C6's case: the lookup timed out and the endpoint lists two models, b
\* first: the status is running with active_model b.
C6_Witness ==
    /\ StatusDone("w1")
    /\ th["w1"].reply.outcomes[1] = Raised("TimeoutExpired")
    /\ th["w1"].reply.outcomes[2].body =
         Obj([data |-> Lst(<<Named("id", ModelB), Named("id", ModelA)>>)])
    /\ th["w1"].reply.body.v.running
    /\ th["w1"].reply.body.v.models = Lst(<<Str(ModelB), Str(ModelA)>>)
    /\ th["w1"].reply.body.v.active_model = Str(ModelB)

\* The which/where lookup failed (non-zero exit) or raised.
BinaryAbsent(lookup) == lookup # Exited(0)

\* C7 as stated: when the runtime binary is absent, the status has
\* installed = false and running = false, for every endpoint.
C7_AbsentMeansNotRunning ==
    \A t \in Workers :
        (StatusDone(t) /\ BinaryAbsent(th[t].reply.outcomes[1])) =>
            /\ th[t].reply.status = 200
            /\ th[t].reply.body.v.installed = FALSE
            /\ th[t].reply.body.v.running = FALSE

\* C7 (amended): when the runtime binary is absent, the status has
\* installed = false, without raising, for every endpoint; running does not
\* depend on the lookup: it is false iff the model listing of the endpoint
\* is empty, and true when a runtime answers at the endpoint.
C7_AbsentMeansNotInstalled ==
    \A t \in Workers :
        (StatusDone(t) /\ BinaryAbsent(th[t].reply.outcomes[1])) =>
            /\ th[t].reply.status = 200
            /\ th[t].reply.body.v.installed = FALSE
            /\ th[t].reply.body.v.running = (ListedFor(t) # <<>>)

\* C7's case: `which ollama` exits 1 while the endpoint lists a model.
C7_Witness ==
    /\ StatusDone("w1")
    /\ th["w1"].reply.outcomes[1] = Exited(1)
    /\ th["w1"].reply.body.v.installed = FALSE
    /\ th["w1"].reply.body.v.running = TRUE
    /\ th["w1"].reply.body.v.active_model = Str(ModelA)

StartDone(t) == th[t].route = "/api/start_llm" /\ th[t].pc = "done"

\* C8: when the install lookup exits non-zero or raises, _start_llm_service
\* returns success = false and invokes no start mechanism: its only
\* subprocess is the lookup; when the lookup exits non-zero the result
\* carries install_url.
C8_NotInstalledNoStart ==
    \A t \in Workers :
        (StartDone(t) /\ BinaryAbsent(th[t].reply.outcomes[1])) =>
            /\ th[t].reply.body.v.success = FALSE
            /\ th[t].reply.calls = <<Run(CheckCmd(th[t].data.system))>>
            /\ \A i \in DOMAIN th[t].reply.calls :
                   /\ th[t].reply.calls[i].via # "Popen"
                   /\ th[t].reply.calls[i].to \notin
                        {PreferredCmd(p) : p \in Platforms} \cup {ServeCmd}
            /\ th[t].reply.outcomes[1].kind = "exit" =>
                   "install_url" \in DOMAIN th[t].reply.body.v

\* C8's case: on Linux `which ollama` exits 1; the result is a failure with
\* the install_url hint and nothing was started.
C8_Witness ==
    /\ StartDone("w1")
    /\ th["w1"].data.system = "Linux"
    /\ th["w1"].reply.outcomes = <<Exited(1)>>
    /\ th["w1"].reply.body.v.success = FALSE
    /\ "install_url" \in DOMAIN th["w1"].reply.body.v

\* The start attempts of a call (the calls after the lookup) that succeeded.
Succeeded(t) ==
    {i \in 2..Len(th[t].reply.outcomes) :
        th[t].reply.outcomes[i] \in {Exited(0), Started}}

InstalledOnSupported(t) ==
    /\ StartDone(t)
    /\ th[t].reply.outcomes[1] = Exited(0)
    /\ th[t].data.system \in {"Linux", "Darwin", "Windows"}

\* C9 as stated: installed, the platform-preferred mechanism is attempted
\* first and, whenever it fails in any way, `ollama serve` is launched as a
\* fallback, on Linux, macOS and Windows; failure is returned only if every
\* attempt including the fallback failed, and on success exactly one start
\* path succeeded.
C9_AlwaysFallsBack ==
    \A t \in Workers :
        InstalledOnSupported(t) =>
            LET r == th[t].reply
            IN  /\ r.calls[2] = Run(PreferredCmd(th[t].data.system))
                /\ r.outcomes[2] # Exited(0) =>
                     Len(r.calls) = 3 /\ r.calls[3] = Popen(ServeCmd)
                /\ r.body.v.success = FALSE =>
                     Len(r.calls) = 3 /\ Succeeded(t) = {}
                /\ r.body.v.success = TRUE => Cardinality(Succeeded(t)) = 1

\* C9 (amended): installed, the platform-preferred mechanism is attempted
\* first; `ollama serve` is launched as a fallback only on Linux when
\* systemctl exits non-zero and on macOS when brew exits non-zero or is not
\* found.  A timeout of the preferred command, a missing systemctl on Linux
\* and every failure on Windows return failure with no fallback launched.
\* Failure is returned exactly when no attempt that was made succeeded, and
\* on success exactly one start path succeeded.
C9_FallsBackWhereCaught ==
    \A t \in Workers :
        InstalledOnSupported(t) =>
            LET r == th[t].reply
                system == th[t].data.system
                nonzero == r.outcomes[2].kind = "exit" /\ r.outcomes[2].status # 0
                caught ==
                    \/ system = "Linux" /\ nonzero
                    \/ system = "Darwin" /\
                         (nonzero \/ r.outcomes[2] = Raised("FileNotFoundError"))
            IN  /\ r.calls[2] = Run(PreferredCmd(system))
                /\ Len(r.calls) = (IF caught THEN 3 ELSE 2)
                /\ Len(r.outcomes) = Len(r.calls)
                /\ caught => r.calls[3] = Popen(ServeCmd)
                /\ r.body.v.success = (Succeeded(t) # {})
                /\ r.body.v.success = TRUE => Cardinality(Succeeded(t)) = 1

\* C9's case: on Linux systemctl exits 1, `ollama serve` is launched and
\* success is reported.
C9_Witness ==
    /\ StartDone("w1")
    /\ th["w1"].data.system = "Linux"
    /\ th["w1"].reply.outcomes = <<Exited(0), Exited(1), Started>>
    /\ th["w1"].reply.calls[3] = Popen(ServeCmd)
    /\ th["w1"].reply.body.v.success = TRUE

(***************************************************************************)
(* C2: a request without its required field                                *)
(***************************************************************************)
ChatOf(t) == th[t].route = "/api/chat"
SaveOf(t) == th[t].route = "/api/save_conversation"

\* The save request carries a non-empty messages value.
HasMessages(t) ==
    th[t].data.t = "obj" /\ Truthy(Get(th[t].data, "messages", Lst(<<>>)))

\* C2 as stated: a POST /api/chat without a non-empty model is answered 400
\* and no outbound call is made for it; a POST /api/save_conversation
\* without a non-empty messages list is answered 400 without a file name
\* having been generated or a file opened, so that the transcript files are
\* as they were.
C2_MissingFieldIs400 ==
    \A t \in Workers :
        /\ (ChatOf(t) /\ ~HasModel(t)) =>
               /\ th[t].pc = "done"
               /\ th[t].reply.status = 400
               /\ th[t].reply.calls = <<>>
        /\ (SaveOf(t) /\ ~HasMessages(t)) =>
               /\ th[t].pc = "done"
               /\ th[t].reply.status = 400
               /\ th[t].local = Null

(***************************************************************************)
(* C10: transcript files once written                                      *)
(***************************************************************************)
\* The name that a save reading the clock at `read_at` gives its file: the
\* second of the reading.
NameOfSecond(read_at) == <<"conversation_", read_at \div TicksPerSec, ".json">>

\* Thread t takes a step of a save that has generated its file name.
SaveStep(t) ==
    /\ SaveOf(t)
    /\ th[t].pc \in {"save_open", "save_dump"}
    /\ th'[t] # th[t]

SaveDone(t) == SaveOf(t) /\ th[t].pc = "done" /\ th[t].reply.status = 200

\* C10 as stated: a transcript file, once written, is never altered or
\* replaced by any later step, whether of a save or of a listing.
C10_NeverAltered ==
    [][\A n \in DOMAIN files :
          files[n].kind = "json" =>
              (n \in DOMAIN files' /\ files'[n] = files[n])]_vars

\* A file is created or altered only by a step of a save whose clock
\* reading falls in the second that the file's name carries.
AlteredOnlyBySameSecond ==
    \A n \in DOMAIN files' :
        (n \notin DOMAIN files \/ files'[n] # files[n]) =>
            \E t \in Workers :
                SaveStep(t) /\ n = NameOfSecond(th[t].local.read_at)

\* As long as one save only has generated a file name, a transcript in the
\* file of that name is exactly the messages of that save in their order,
\* and once the save has succeeded the file holds the document it wrote.
SoleSaveKept ==
    \A n \in DOMAIN history :
        history[n].saves = 1 =>
            /\ (n \in DOMAIN files /\ files[n].kind = "json") =>
                   files[n].doc.messages = history[n].messages
            /\ \A t \in Workers :
                   (SaveDone(t) /\ th[t].local.filename = n) =>
                       /\ n \in DOMAIN files
                       /\ files[n] = JsonFile(th[t].local.doc)
                       /\ th[t].local.doc.messages = th[t].data.v.messages

\* C10 (amended): a transcript file is created or altered only by a save
\* that generates the same file name, that is, one that reads the clock in
\* the same second; such a save truncates and rewrites the file.  A save in
\* another second writes another file and leaves the existing ones as they
\* are, a listing never modifies a file, and a file whose name one save only
\* has generated holds exactly the messages of that save, in order, with
\* the timestamp it was written with.
C10_AlteredOnlyBySameSecond ==
    /\ [][AlteredOnlyBySameSecond]_vars
    /\ []SoleSaveKept

\* C10's case: a save in second 0 wrote one message, a save in second 1
\* wrote two to another file, and a listing has since returned both, the
\* first file as it was written.
C10_Witness ==
    /\ DOMAIN files = {NameOfSecond(0), NameOfSecond(TicksPerSec)}
    /\ files[NameOfSecond(0)] =
           JsonFile([timestamp |-> [sec |-> 0, frac |-> 0],
                     messages |-> Lst(<<User(Hi)>>)])
    /\ files[NameOfSecond(TicksPerSec)].kind = "json"
    /\ files[NameOfSecond(TicksPerSec)].size = 2
    /\ history[NameOfSecond(0)].saves = 1
    /\ SaveDone("w1")
    /\ th["w1"].local.filename = NameOfSecond(TicksPerSec)
    /\ th["w2"].route = "/api/conversations"
    /\ th["w2"].pc = "done"
    /\ Len(th["w2"].reply.body.v.conversations.v) = 2

(***************************************************************************)
(* C11: a saved transcript in the listing                                  *)
(***************************************************************************)
\* Thread t handles a GET /api/conversations in this step.
ListStep(t) ==
    /\ proc.alive
    /\ th[t].pc = "idle"
    /\ th'[t].pc = "done"
    /\ th'[t].route = "/api/conversations"

\* Every file the listing of this step opened could be read.
AllRead(t) == th'[t].local.unreadable = {}

\* The entries of the listing that thread t returns in this step.
Listed(t) == th'[t].reply.body.v.conversations.v

\* C11 as stated: a listing that follows a successful save of N >= 1
\* messages, with no save in between, and reads every file has an entry
\* with the file name the
\* save returned, whose message_count is N and whose timestamp lies in the
\* second that the file name carries.
C11_ListedAsSaved ==
    [][\A t \in Workers :
          (ListStep(t) /\ AllRead(t) /\ latest # Null
                       /\ latest.messages.t = "list") =>
              \E i \in DOMAIN Listed(t) :
                  /\ Listed(t)[i].filename = latest.filename
                  /\ Listed(t)[i].message_count = Len(latest.messages.v)
                  /\ Listed(t)[i].timestamp.sec =
                         latest.read_at \div TicksPerSec]_vars

(***************************************************************************)
(* C12: the listing and corrupt files                                      *)
(***************************************************************************)
\* File n holds a transcript the listing of thread t's step can read: it
\* opens and json.load parses it.
ValidFor(t, n) ==
    /\ n \notin th'[t].local.unreadable
    /\ files[n].kind = "json"

\* C12: a listing is answered 200 whatever corrupt files there are; it has
\* exactly one entry for every file that opens and parses, carrying that
\* file's name, timestamp and number of messages, no entry for any other
\* file, and its entries are in strictly descending order of file name.
C12_ListsEveryValidFile ==
    [][\A t \in Workers :
          ListStep(t) =>
              /\ th'[t].reply.status = 200
              /\ DOMAIN th'[t].reply.body.v = {"conversations"}
              /\ \A n \in DOMAIN files :
                     ValidFor(t, n) =>
                         /\ Cardinality({i \in DOMAIN Listed(t) :
                                           Listed(t)[i].filename = n}) = 1
                         /\ \E i \in DOMAIN Listed(t) :
                                Listed(t)[i] =
                                    [filename |-> n,
                                     timestamp |-> files[n].doc.timestamp,
                                     message_count |->
                                         Len(files[n].doc.messages.v)]
              /\ \A i \in DOMAIN Listed(t) :
                     /\ Listed(t)[i].filename \in DOMAIN files
                     /\ ValidFor(t, Listed(t)[i].filename)
              /\ \A i, j \in DOMAIN Listed(t) :
                     i < j => Listed(t)[i].filename[2] > Listed(t)[j].filename[2]
      ]_vars

\* C12's case: the newer of two files holds bytes that do not parse, the
\* older one a transcript, and the listing returned has the older one as
\* its only entry.
C12_Witness ==
    /\ DOMAIN files = {NameOfSecond(0), NameOfSecond(TicksPerSec)}
    /\ files[NameOfSecond(TicksPerSec)].kind = "garbage"
    /\ files[NameOfSecond(0)].kind = "json"
    /\ th["w1"].route = "/api/conversations"
    /\ th["w1"].pc = "done"
    /\ th["w1"].local.unreadable = {}
    /\ th["w1"].reply.status = 200
    /\ Len(th["w1"].reply.body.v.conversations.v) = 1
    /\ th["w1"].reply.body.v.conversations.v[1].filename = NameOfSecond(0)

(***************************************************************************)
(* C13: the shutdown response and the end of the process                   *)
(***************************************************************************)
\* Thread t has produced the {message} response of a POST /api/shutdown and
\* not yet returned it.
ShutdownPending(t) ==
    /\ th[t].route = "/api/shutdown"
    /\ th[t].pc = "done"
    /\ th[t].reply.status = 200

\* C13 as stated: the process ends only after the {message} response of
\* every shutdown request has been returned, on the werkzeug branch and on
\* the background-thread branch, however the threads interleave.
C13_ExitsAfterResponse ==
    ~proc.alive => \A t \in Workers : ~ShutdownPending(t)

\* The part of C13 that holds: once a shutdown request has produced its
\* {message} response, the process does come to an end (checked under
\* SpecShutdownFair).
C13_EventuallyEnds ==
    (\E t \in Workers : ShutdownPending(t)) ~> ~proc.alive

====
